---- MODULE Spec2Model ----
(***************************************************************************)
(* Model of the proxy-aware fetch wrapper of src/shared/net.ts and of its  *)
(* two sibling revisions (src/unnamed/part_000, src/unnamed/part_001).     *)
(*                                                                         *)
(* Part I   the test mock seam: the module-level slot mockFetch, the       *)
(*          entry point that consults it, and mockFetchForTesting.         *)
(* Part II  the dispatch pipeline: URL resolution, classification,         *)
(*          dispatcher selection, normalisation, and the safety net.       *)
(***************************************************************************)
EXTENDS Integers, Sequences, FiniteSets, TLC

VARIABLES
    mockFetch,          \* net.ts:322  the module-level slot
    pc,                 \* per activation: where mockFetchForTesting stands
    theFetch,           \* per activation: parameter theFetch
    originalMockFetch,  \* per activation: the local saved at net.ts:420
    lastExit,           \* the activation that just finished, and how
    restores,           \* per activation: number of write-backs executed
    stack,              \* callbacks currently executing synchronously
    microtasks,         \* queued .finally reactions, in FIFO order
    events,             \* number of installs, settlements and write-backs so far
    at,                 \* per activation: when each of these happened (0: not yet)
    lastCall,           \* the entry-point call just made, if any
    call,               \* the dispatch call in progress (Part II)
    registry            \* proxyAgent and localAgent of the closure (Part II)

mockVars == <<mockFetch, pc, theFetch, originalMockFetch, lastExit, restores,
              stack, microtasks, events, at, lastCall>>

pipeVars == <<call, registry>>

vars == <<mockVars, pipeVars>>

-----------------------------------------------------------------------------
(* Part I: bounds and value spaces                                          *)

\* Number of calls of mockFetchForTesting in one run.
MaxActivations == 3

Activations == 1..MaxActivations

\* Distinct replacement functions a test may pass as theFetch.
Mocks == {"mockA", "mockB"}

\* The replacement of the first activation (the names are interchangeable).
FirstMock == "mockA"

\* `let mockFetch` without initialiser.
Undefined == "undefined"

NoCall == [resolver |-> "none", calls |-> {}]

NoExit == [act |-> 0, kind |-> "none"]

Last(s) == s[Len(s)]

-----------------------------------------------------------------------------
(* Part I: the code                                                         *)

\* net.ts:407-409  (mockFetch || baseFetch)(input, init); both branches of
\* net.ts:339-404 end in a call of undiciFetch, neither calls globalThis.fetch.
EntryResolver_ignoresSlot(slot) == [resolver |-> "baseFetch", calls |-> {"undiciFetch"}]

EntryResolver(slot) ==
    IF slot # Undefined
    THEN [resolver |-> slot, calls |-> {slot}]
    ELSE [resolver |-> "baseFetch", calls |-> {"undiciFetch"}]

\* net.ts:425-426  willResetSync stays true unless callback returned a Promise.
WillResetSync_alwaysTrue(kind) == TRUE

WillResetSync(kind) == kind # "promise"

\* net.ts:428 and net.ts:435  the value written back into the slot.
ResetValue_guarded(a) ==
    IF mockFetch = theFetch[a] THEN originalMockFetch[a] ELSE mockFetch

ResetValue_absent(a) == Undefined

ResetValue(a) == originalMockFetch[a]

\* The event op of activation a happens now, as the n-th next event; only
\* the first occurrence is kept.
Stamp(t, a, op, n) ==
    IF t[a][op] = 0 THEN [t EXCEPT ![a][op] = events + n] ELSE t

NoEvents == [install |-> 0, return |-> 0, settle |-> 0, restore |-> 0]

\* net.ts:420-424  save the slot, install theFetch, enter callback().
MockFetchForTesting(a, m) ==
    /\ pc[a] = "idle"
    /\ \A b \in Activations : b < a => pc[b] # "idle"
    /\ a = 1 => m = FirstMock
    /\ originalMockFetch' = [originalMockFetch EXCEPT ![a] = mockFetch]
    /\ theFetch' = [theFetch EXCEPT ![a] = m]
    /\ mockFetch' = m
    /\ pc' = [pc EXCEPT ![a] = "callback"]
    /\ stack' = Append(stack, a)
    /\ events' = events + 1
    /\ at' = Stamp(at, a, "install", 1)
    /\ lastCall' = NoCall
    /\ lastExit' = NoExit
    /\ UNCHANGED <<restores, microtasks>>

\* net.ts:424-437  callback() returns a value, throws, or returns a Promise;
\* the finally block runs before mockFetchForTesting returns.
CallbackExit(a, kind) ==
    /\ stack # <<>> /\ Last(stack) = a
    /\ pc[a] = "callback"
    /\ stack' = SubSeq(stack, 1, Len(stack) - 1)
    /\ lastCall' = NoCall
    /\ IF kind = "promise"
       THEN /\ pc' = [pc EXCEPT ![a] = "pending"]
            /\ lastExit' = NoExit
       ELSE /\ pc' = [pc EXCEPT ![a] = "returned"]
            /\ lastExit' = [act |-> a, kind |-> kind]
    /\ LET returned == IF kind = "promise" THEN at
                        ELSE Stamp(at, a, "return", 1)
           n == IF kind = "promise" THEN 0 ELSE 1
       IN IF WillResetSync(kind)
          THEN /\ mockFetch' = ResetValue(a)
               /\ restores' = [restores EXCEPT ![a] = @ + 1]
               /\ events' = events + n + 1
               /\ at' = Stamp(returned, a, "restore", n + 1)
          ELSE /\ UNCHANGED <<mockFetch, restores>>
               /\ events' = events + n
               /\ at' = returned
    /\ UNCHANGED <<theFetch, originalMockFetch, microtasks>>

\* The promise returned by callback() fulfils or rejects; the reaction
\* registered by result.finally (net.ts:427) is queued as a microtask.
PromiseSettles(a, outcome) ==
    /\ pc[a] = "pending"
    /\ pc' = [pc EXCEPT ![a] = "settled"]
    /\ lastExit' = NoExit
    /\ microtasks' = Append(microtasks, [act |-> a, outcome |-> outcome])
    /\ events' = events + 1
    /\ at' = Stamp(at, a, "settle", 1)
    /\ lastCall' = NoCall
    /\ UNCHANGED <<mockFetch, theFetch, originalMockFetch, restores, stack>>

\* net.ts:427-429  the .finally reaction; microtasks run in FIFO order and
\* only when no synchronous code is on the stack.
FinallyReaction(a) ==
    /\ stack = <<>>
    /\ microtasks # <<>> /\ Head(microtasks).act = a
    /\ microtasks' = Tail(microtasks)
    /\ mockFetch' = ResetValue(a)
    /\ restores' = [restores EXCEPT ![a] = @ + 1]
    /\ pc' = [pc EXCEPT ![a] = "returned"]
    /\ events' = events + 1
    /\ at' = Stamp(at, a, "restore", 1)
    /\ lastCall' = NoCall
    /\ lastExit' = [act |-> a, kind |-> Head(microtasks).outcome]
    /\ UNCHANGED <<theFetch, originalMockFetch, stack>>

\* net.ts:407-409  one call of the exported fetch.
FetchEntry ==
    /\ lastCall = NoCall
    /\ lastCall' = EntryResolver(mockFetch)
    /\ lastExit' = NoExit
    /\ UNCHANGED <<mockFetch, pc, theFetch, originalMockFetch,
                   restores, stack, microtasks, events, at>>

MockInit ==
    /\ mockFetch = Undefined
    /\ pc = [a \in Activations |-> "idle"]
    /\ theFetch = [a \in Activations |-> Undefined]
    /\ originalMockFetch = [a \in Activations |-> Undefined]
    /\ lastExit = NoExit
    /\ restores = [a \in Activations |-> 0]
    /\ stack = <<>>
    /\ microtasks = <<>>
    /\ events = 0
    /\ at = [a \in Activations |-> NoEvents]
    /\ lastCall = NoCall


-----------------------------------------------------------------------------
(* Part I: derived notions used by the properties                           *)

Started == {a \in Activations : pc[a] # "idle"}

\* Activations whose saved value has not been written back yet.
Unrestored == {a \in Started : restores[a] = 0}

\* Activations are numbered in the order of their installs.
Innermost == CHOOSE a \in Unrestored : \A b \in Unrestored : b <= a

\* Position of the first event (op, a) in the run so far; 0 when absent.
Pos(op, a) == at[a][op]

\* When callback settled: synchronous return or throw, or settlement of the
\* promise it returned.
SettlePos(a) == IF Pos("return", a) > 0 THEN Pos("return", a) ELSE Pos("settle", a)

\* Write-backs so far happened in LIFO order: whatever was installed after a
\* and before a's write-back was written back before a was.
RestoredLIFO ==
    \A a, b \in Started :
        (a < b /\ Pos("restore", a) > 0 /\ Pos("install", b) < Pos("restore", a))
            => (Pos("restore", b) > 0 /\ Pos("restore", b) < Pos("restore", a))

\* Nesting judged by settlement: whatever started before an outer callback
\* settled has itself settled before it.
NestedBySettlement ==
    \A o, i \in Started :
        (o < i /\ SettlePos(o) > 0 /\ Pos("install", i) < SettlePos(o))
            => (SettlePos(i) > 0 /\ SettlePos(i) < SettlePos(o))

\* The activations whose callback had not settled when a was over.
Enclosing(a) == {o \in Started : o < a /\ pc[o] \in {"callback", "pending"}}

Nearest(S) == CHOOSE a \in S : \A b \in S : b <= a

Quiescent == Started # {} /\ \A a \in Started : pc[a] = "returned"

\* A and B overlap without nesting: both return promises, B starts before
\* A's promise settles, A's promise settles before B's.
Overlapping(A, B) ==
    /\ A < B /\ B \in Started
    /\ Pos("settle", A) > 0
    /\ Pos("install", B) < Pos("settle", A)
    /\ Pos("return", B) = 0 /\ pc[B] # "callback"
    /\ (Pos("settle", B) = 0 \/ Pos("settle", A) < Pos("settle", B))

\* Every other activation was over before A began.
Alone(A, B) ==
    \A c \in Started \ {A, B} :
        Pos("restore", c) > 0 /\ Pos("restore", c) < Pos("install", A)

-----------------------------------------------------------------------------
(* Part I: properties                                                       *)

\* C1 as claimed: every entry-point call made between the install of an
\* activation and the settlement of its callback is delegated to that
\* activation's theFetch and to nothing else, and every call made after the
\* settlement is resolved by what resolved calls before the activation.
C1_DelegatedUntilSettled ==
    lastCall # NoCall =>
        \A a \in Started :
            /\ pc[a] \in {"callback", "pending"} =>
                  lastCall = [resolver |-> theFetch[a], calls |-> {theFetch[a]}]
            /\ pc[a] \in {"settled", "returned"} =>
                  lastCall = EntryResolver(originalMockFetch[a])

\* C1 (amended): while write-backs are LIFO, an entry-point call is delegated
\* entirely to the theFetch of the innermost activation not yet written back
\* (no low-level or baseline call), and with every activation written back
\* it is resolved by baseFetch, as before the outermost activation.
C1_DelegatedToInnermost ==
    (lastCall # NoCall /\ RestoredLIFO) =>
        lastCall = IF Unrestored = {}
                   THEN [resolver |-> "baseFetch", calls |-> {"undiciFetch"}]
                   ELSE [resolver |-> theFetch[Innermost],
                         calls |-> {theFetch[Innermost]}]

\* C1 witness: a call made inside an outer activation after a nested one with
\* a different replacement was written back, resolved by the outer theFetch.
C1_Witness ==
    /\ lastCall # NoCall /\ RestoredLIFO
    /\ \E a, b \in Started :
          /\ a < b /\ Unrestored = {a} /\ restores[b] = 1
          /\ Pos("install", b) < Pos("restore", b)
          /\ theFetch[a] # theFetch[b]
          /\ lastCall.resolver = theFetch[a]

\* C2: every activation writes its saved value back exactly once, on each of
\* the four exit paths: never before the exit, never twice, and the value
\* written is the one saved at the install.
C2_RestoredExactlyOnce ==
    /\ \A a \in Activations :
          /\ restores[a] <= 1
          /\ (pc[a] = "returned") <=> (restores[a] = 1)
    /\ lastExit # NoExit =>
          /\ lastExit.kind \in {"value", "throw", "fulfilled", "rejected"}
          /\ restores[lastExit.act] = 1
          /\ mockFetch = originalMockFetch[lastExit.act]

\* C2 witness: an activation whose callback returned a promise that rejected
\* has just written back, after another one ended by a synchronous throw.
C2_Witness ==
    /\ lastExit.kind = "rejected"
    /\ restores[lastExit.act] = 1
    /\ \E b \in Started : Pos("return", b) > 0 /\ restores[b] = 1

\* C3 as claimed: with nesting judged by the settlement of the callbacks,
\* once every activation is over the slot holds the value it had before the
\* outermost one began, and after an inner one is over the slot holds the
\* replacement of the activation enclosing it.
C3_NestedBySettlementRestores ==
    NestedBySettlement =>
        /\ Quiescent => mockFetch = Undefined
        /\ (lastExit # NoExit /\ Enclosing(lastExit.act) # {}) =>
              mockFetch = theFetch[Nearest(Enclosing(lastExit.act))]

\* C3 (amended): with nesting judged by the write-backs (LIFO), to any
\* depth, the slot holds the replacement of the innermost activation not yet
\* written back, and the value from before the outermost one when none is.
C3_NestedRestoresPrior ==
    RestoredLIFO =>
        mockFetch = IF Unrestored = {} THEN Undefined ELSE theFetch[Innermost]

\* C3 witness: depth three; the two inner activations are written back and
\* the slot holds the outermost replacement, which differs from theirs.
C3_Witness ==
    /\ RestoredLIFO
    /\ Unrestored = {1} /\ restores[2] = 1 /\ restores[3] = 1
    /\ Pos("install", 3) < Pos("restore", 2)
    /\ Pos("restore", 3) < Pos("restore", 2)
    /\ theFetch[2] # theFetch[1]
    /\ mockFetch = theFetch[1]

\* C4: two overlapping, non-nested promise-returning activations corrupt
\* each other: once A is written back while B is pending the slot is not B's
\* replacement, and once both are over the slot is not the value from before
\* A (the replacements being functions other than the value before A).
C4_OverlapCorrupts ==
    \A A, B \in Started :
        (Overlapping(A, B) /\ Alone(A, B)) =>
            /\ (restores[A] = 1 /\ pc[B] = "pending"
                    /\ theFetch[B] # originalMockFetch[A]) =>
                  mockFetch # theFetch[B]
            /\ (pc[A] = "returned" /\ pc[B] = "returned"
                    /\ theFetch[A] # originalMockFetch[A]) =>
                  mockFetch # originalMockFetch[A]

\* C4 witness: both overlapping activations are over and the slot still
\* holds A's replacement, although it was absent before A began.
C4_Witness ==
    \E A, B \in Started :
        /\ Overlapping(A, B) /\ Alone(A, B)
        /\ pc[A] = "returned" /\ pc[B] = "returned"
        /\ Pos("restore", A) < Pos("settle", B)
        /\ originalMockFetch[A] = Undefined
        /\ mockFetch = theFetch[A]

-----------------------------------------------------------------------------
(* Part II: strings and URLs                                                *)

\* String.prototype.includes
Includes(s, p) ==
    \E i \in 1..(Len(s) - Len(p) + 1) : SubSeq(s, i, i + Len(p) - 1) = p

\* String.prototype.indexOf, 1-based; 0 when p does not occur.
IndexOf(s, p) ==
    IF Includes(s, p)
    THEN CHOOSE i \in 1..(Len(s) - Len(p) + 1) :
            /\ SubSeq(s, i, i + Len(p) - 1) = p
            /\ \A j \in 1..(i - 1) : SubSeq(s, j, j + Len(p) - 1) # p
    ELSE 0

StartsWith(s, p) == Len(s) >= Len(p) /\ SubSeq(s, 1, Len(p)) = p

\* String.prototype.replace with a string pattern: the first occurrence only.
ReplaceFirst(s, p, r) ==
    LET i == IndexOf(s, p)
    IN IF i = 0 THEN s
       ELSE SubSeq(s, 1, i - 1) \o r \o SubSeq(s, i + Len(p), Len(s))

\* String.prototype.replace with a /g pattern: every occurrence.
RECURSIVE ReplaceAll(_, _, _)
ReplaceAll(s, p, r) ==
    LET i == IndexOf(s, p)
    IN IF i = 0 THEN s
       ELSE SubSeq(s, 1, i - 1) \o r
              \o ReplaceAll(SubSeq(s, i + Len(p), Len(s)), p, r)

\* Index of the first character of s, from position i on, that belongs to
\* stops; Len(s) + 1 when there is none.
RECURSIVE FirstOf(_, _, _)
FirstOf(s, i, stops) ==
    IF i > Len(s) THEN Len(s) + 1
    ELSE IF SubSeq(s, i, i) \in stops THEN i
    ELSE FirstOf(s, i + 1, stops)

Digits == {"0", "1", "2", "3", "4", "5", "6", "7", "8", "9"}

DigitValue(c) ==
    CASE c = "0" -> 0 [] c = "1" -> 1 [] c = "2" -> 2 [] c = "3" -> 3
      [] c = "4" -> 4 [] c = "5" -> 5 [] c = "6" -> 6 [] c = "7" -> 7
      [] c = "8" -> 8 [] c = "9" -> 9

IsDecimal(s) == Len(s) > 0 /\ \A i \in 1..Len(s) : SubSeq(s, i, i) \in Digits

RECURSIVE ToNat(_)
ToNat(s) ==
    IF Len(s) = 0 THEN 0
    ELSE 10 * ToNat(SubSeq(s, 1, Len(s) - 1)) + DigitValue(SubSeq(s, Len(s), Len(s)))

\* The dot-separated labels of a hostname.
RECURSIVE Labels(_)
Labels(h) ==
    LET d == FirstOf(h, 1, {"."})
    IN IF d > Len(h) THEN <<h>>
       ELSE <<SubSeq(h, 1, d - 1)>> \o Labels(SubSeq(h, d + 1, Len(h)))

\* new URL(url).hostname for the URLs of this model: scheme http or https
\* followed by "//", a lower-case host without userinfo, an optional port,
\* then path, query or fragment.  Anything else makes the constructor throw.
UrlParses(url) ==
    /\ (StartsWith(url, "http://") \/ StartsWith(url, "https://"))
    /\ LET from == IndexOf(url, "://") + 3
           to == FirstOf(url, from, {"/", "?", "#", ":"})
       IN /\ to > from
          /\ ~ Includes(SubSeq(url, from, to - 1), " ")

UrlHostname(url) ==
    LET from == IndexOf(url, "://") + 3
        to == FirstOf(url, from, {"/", "?", "#", ":"})
    IN SubSeq(url, from, to - 1)

-----------------------------------------------------------------------------
(* Part II: values                                                          *)

\* undefined, or a field the caller did not give.
Absent == "absent"

\* Bodies a caller can pass: "empty" is the string "", "buffer" a Buffer,
\* "bytes" a Uint8Array that is no Buffer, "stream" a ReadableStream, "reader"
\* an object with a text() method (a Blob, or a reader of the caller's own),
\* "object" a plain JSON-serialisable object, "circular" a plain object
\* JSON.stringify throws on.
BodyKinds ==
    {Absent, "empty", "string", "buffer", "bytes", "stream", "reader", "object",
     "circular"}

Truthy(b) == b \notin {Absent, "empty"}

IsString(b) == b \in {"empty", "string"}

IsBuffer(b) == b = "buffer"

IsUint8Array(b) == b \in {"buffer", "bytes"}

HasTextFunction(b) == b = "reader"

\* A body as sent: the caller's value itself ("same"), the text read out of
\* it ("text"), JSON.stringify of it ("json") or String() of it ("String").
Body(b, form) == [of |-> b, as |-> form]

NoBody == Body(Absent, "same")

EmptyMap == [n \in {} |-> ""]

\* Header collections: a plain mapping, a Headers object (entries() yields
\* the names in lower case), or none.
HeaderValue(kind, map) == [kind |-> kind, map |-> map]

NoHeaders == HeaderValue(Absent, EmptyMap)

PlainHeaders ==
    HeaderValue("plain", ("Content-Type" :> "text/plain" @@ "X-Api-Key" :> "k"))

HeadersObject ==
    HeaderValue("Headers", ("content-type" :> "text/plain" @@ "x-api-key" :> "k"))

\* The same names and values as a plain mapping, and as an array of
\* [name, value] pairs (map holds what the pairs say).
PlainLowerHeaders == HeaderValue("plain", HeadersObject.map)

PairsHeaders == HeaderValue("pairs", HeadersObject.map)

\* typeof h.entries === 'function' && !Array.isArray(h): an array has an
\* entries method too and is excluded by the second test.
HasEntriesFunction(h) == h.kind = "Headers"

\* The elements of an array in index order, and the property name of index i.
Elements(map) ==
    CHOOSE q \in [1..Cardinality(DOMAIN map) -> DOMAIN map] :
        {q[i] : i \in DOMAIN q} = DOMAIN map

IndexName(i) == SubSeq("0123456789", i, i)

\* `for (const key in headers)` over an array of pairs: the keys are the
\* indices and String([name, value]) is "name,value".
ForInOverPairs(map) ==
    LET q == Elements(map)
    IN [k \in {IndexName(i) : i \in DOMAIN q} |->
          LET i == CHOOSE j \in DOMAIN q : IndexName(j) = k
          IN q[i] \o "," \o map[q[i]]]

ToUpperCase(m) ==
    CASE m = "get" -> "GET" [] m = "head" -> "HEAD" [] m = "post" -> "POST"
      [] OTHER -> m

NoInit ==
    [given |-> FALSE, method |-> Absent, headers |-> NoHeaders, body |-> Absent,
     signal |-> Absent, duplex |-> Absent]

InitOf(method, headers, body, signal) ==
    [given |-> TRUE, method |-> method, headers |-> headers, body |-> body,
     signal |-> signal, duplex |-> Absent]

StringInput(u) ==
    [shape |-> "string", url |-> u, method |-> Absent, headers |-> NoHeaders,
     body |-> Absent, signal |-> Absent]

UrlInput(u) == [StringInput(u) EXCEPT !.shape = "URL"]

RequestInput(u, method, headers, body, signal) ==
    [shape |-> "Request", url |-> u, method |-> method, headers |-> headers,
     body |-> body, signal |-> signal]

\* An input that is no string, no URL and has no url property.
OtherInput == [StringInput("") EXCEPT !.shape = "other"]

\* typeof input === 'object' && input !== null && 'method' in input
HasMethod(input) == input.shape = "Request"

NoRequest ==
    [url |-> "", method |-> Absent, headers |-> NoHeaders, body |-> NoBody,
     signal |-> Absent, duplex |-> Absent, dispatcher |-> "none"]

\* What a rejected promise or a throw can carry, as far as the catch blocks
\* look at it: an Error without cause, an Error with a serialisable cause,
\* an Error whose cause JSON.stringify throws on, or null / undefined.
ErrorKinds == {"Error", "ErrorWithCause", "ErrorCircularCause", "nullish"}

\* undici's fetch rejects with a TypeError whose cause is the transport's
\* error; a TLS verification error carries the peer certificate, whose
\* issuerCertificate chain ends in a self-reference for a self-signed root.
UndiciErrors == {"Error", "ErrorWithCause", "ErrorCircularCause"}

\* body.text() is the caller's function: it may reject with anything.
TextErrors == {"Error", "nullish"}

-----------------------------------------------------------------------------
(* Part II: the three revisions of the Primary path                         *)

\* part_000:101-109, part_001:101-111, net.ts:102-109  the two agents.
Dispatchers == [local |-> "localAgent", proxy |-> "proxyAgent"]

\* part_000:134, part_001:134, net.ts:133
SelectDispatcher_swapped(isLocal, agents) ==
    IF isLocal THEN agents.proxy ELSE agents.local

SelectDispatcher(isLocal, agents) ==
    IF isLocal THEN agents.local ELSE agents.proxy

\* net.ts:126-128, part_000:125, part_001:128-130
RewriteLocalhost(url) ==
    IF Includes(url, "localhost")
    THEN ReplaceFirst(url, "localhost", "127.0.0.1")
    ELSE url

\* part_000:124
FixBackslashes(url) ==
    IF Includes(url, "\\") THEN ReplaceAll(url, "\\", "/") ELSE url

\* part_000:128-129  hostname keeps its default when new URL throws.
HostnameOrDefault(url) == IF UrlParses(url) THEN UrlHostname(url) ELSE "localhost"

\* part_000:131  /^(127\.|192\.168\.|10\.|172\.(1[6-9]|2[0-9]|3[0-1])\.)/
IsPrivate(hostname) ==
    \/ StartsWith(hostname, "127.")
    \/ StartsWith(hostname, "192.168.")
    \/ StartsWith(hostname, "10.")
    \/ /\ StartsWith(hostname, "172.")
       /\ Len(hostname) >= 7
       /\ SubSeq(hostname, 7, 7) = "."
       /\ \/ /\ SubSeq(hostname, 5, 5) = "1"
             /\ SubSeq(hostname, 6, 6) \in {"6", "7", "8", "9"}
          \/ /\ SubSeq(hostname, 5, 5) = "2"
             /\ SubSeq(hostname, 6, 6) \in Digits
          \/ /\ SubSeq(hostname, 5, 5) = "3"
             /\ SubSeq(hostname, 6, 6) \in {"0", "1"}

\* part_000:132
IsLocal_000(hostname) ==
    IsPrivate(hostname) \/ hostname = "localhost" \/ hostname = "0.0.0.0"

\* net.ts:132, part_001:133
IsLocal_substring(url) == Includes(url, "127.0.0.1") \/ Includes(url, "0.0.0.0")

\* What the Primary path leaves behind: it raised err, or it handed request
\* to undiciFetch; the caller's init object as it is afterwards; the caller's
\* bodies it has read to the end.
PrimaryResult(err, url, hostname, classified, isLocal, request, initNow, used) ==
    [err |-> err, url |-> url, hostname |-> hostname, classified |-> classified,
     isLocal |-> isLocal, request |-> request, initNow |-> initNow, used |-> used]

\* The options object after `{method, headers, body, signal, ...options}`:
\* a field of init wins whenever init has it.
Merge(input, init) ==
    [given |-> TRUE,
     method |-> IF init.method # Absent THEN init.method ELSE input.method,
     headers |-> IF init.headers # NoHeaders THEN init.headers ELSE input.headers,
     body |-> IF init.body # Absent THEN init.body ELSE input.body,
     signal |-> IF init.signal # Absent THEN init.signal ELSE input.signal,
     duplex |-> init.duplex]

\* net.ts:145-149
CleanHeaders_net(options) ==
    IF options.headers # NoHeaders /\ HasEntriesFunction(options.headers)
    THEN [options EXCEPT !.headers = HeaderValue("plain", options.headers.map)]
    ELSE options

\* net.ts:152-157
HandleDuplex(options) ==
    IF /\ Truthy(options.body)
       /\ ~ (IsString(options.body) \/ IsUint8Array(options.body)
               \/ IsBuffer(options.body))
       /\ options.duplex = Absent
    THEN [options EXCEPT !.duplex = "half"]
    ELSE options

\* net.ts:111-164  the try block up to the call of undiciFetch.
Primary_net(input, init, agents) ==
    IF input.shape = "other"
    THEN PrimaryResult("Error", "", "", FALSE, FALSE, NoRequest, init, {})
    ELSE
      LET url == RewriteLocalhost(input.url)
          isLocal == IsLocal_substring(url)
          selectedDispatcher == SelectDispatcher(isLocal, agents)
          \* net.ts:136  `init || {}`: options IS the caller's init object
          \* unless the merge at net.ts:138-141 builds a fresh one.
          aliased == init.given /\ ~ HasMethod(input)
          options == HandleDuplex(CleanHeaders_net(
                        IF HasMethod(input) THEN Merge(input, init) ELSE init))
          request == [url |-> url, method |-> options.method,
                      headers |-> options.headers,
                      body |-> Body(options.body, "same"),
                      signal |-> options.signal, duplex |-> options.duplex,
                      dispatcher |-> selectedDispatcher]
      IN PrimaryResult("none", url, "", TRUE, isLocal, request,
                       IF aliased THEN options ELSE init, {})

\* part_000:137-155  method and rawBody.
Method_000(input, init) ==
    LET fromInput == IF HasMethod(input) /\ input.method # Absent
                     THEN input.method ELSE "GET"
    IN ToUpperCase(IF init.given /\ init.method # Absent
                   THEN init.method ELSE fromInput)

RawBody_000(input, init) ==
    LET fromInput == IF HasMethod(input) THEN input.body ELSE Absent
        raw == IF init.given /\ Truthy(init.body) THEN init.body ELSE fromInput
    IN IF Method_000(input, init) \in {"GET", "HEAD"} THEN Absent ELSE raw

\* part_000:158-171
FinalBody_000(rawBody) ==
    IF ~ Truthy(rawBody) \/ IsString(rawBody) THEN Body(rawBody, "same")
    ELSE IF HasTextFunction(rawBody) THEN Body(rawBody, "text")
    ELSE IF rawBody = "circular" THEN Body(rawBody, "String")
    ELSE Body(rawBody, "json")

\* part_000:175-182
CleanHeaders_000(isLocal, hostname) ==
    LET defaults == ("Content-Type" :> "application/json"
                       @@ "Connection" :> "keep-alive")
    IN HeaderValue("plain",
                   IF isLocal THEN ("Host" :> hostname) @@ defaults ELSE defaults)

\* part_000:111-200  the try block up to the call of undiciFetch; text is
\* how the await of finalBody.text() ends when it is reached.
Primary_000(input, init, text, agents) ==
    LET url == RewriteLocalhost(FixBackslashes(
                  IF input.shape = "other" THEN "" ELSE input.url))
        hostname == HostnameOrDefault(url)
        isLocal == IsLocal_000(hostname)
        selectedDispatcher == SelectDispatcher(isLocal, agents)
        method == Method_000(input, init)
        rawBody == RawBody_000(input, init)
        finalBody == FinalBody_000(rawBody)
        fetchOptions == [url |-> url, method |-> method,
                         headers |-> CleanHeaders_000(isLocal, hostname),
                         body |-> IF Truthy(rawBody) THEN finalBody ELSE NoBody,
                         signal |-> Absent, duplex |-> Absent,
                         dispatcher |-> selectedDispatcher]
    IN IF Truthy(rawBody) /\ ~ IsString(rawBody) /\ HasTextFunction(rawBody)
          /\ text # "ok"
       THEN PrimaryResult(text, url, hostname, TRUE, isLocal, NoRequest, init, {})
       ELSE PrimaryResult("none", url, hostname, TRUE, isLocal, fetchOptions,
                          init, {})

\* part_001:137-150
Method_001(input, init) ==
    IF init.given /\ init.method # Absent THEN init.method
    ELSE IF HasMethod(input) THEN input.method ELSE "GET"

RawBody_001(input, init) ==
    IF init.given /\ Truthy(init.body) THEN init.body
    ELSE IF HasMethod(input) THEN input.body ELSE Absent

\* Which of the caller's objects rawBody was taken from.
RawBodyOwner_001(input, init) ==
    IF init.given /\ Truthy(init.body) THEN "init.body" ELSE "input.body"

Headers_001(input, init) ==
    IF init.given /\ init.headers # NoHeaders THEN init.headers
    ELSE IF HasMethod(input) THEN input.headers
    ELSE HeaderValue("plain", EmptyMap)

\* part_001:154
NeedsBuffering(rawBody) ==
    Truthy(rawBody) /\ ~ IsString(rawBody) /\ ~ IsBuffer(rawBody)

\* part_001:153-160  drain is how `await new Response(rawBody).text()` ends
\* for a stream or a Blob; the Response constructor turns a plain object
\* into the string String(object).
FinalBody_001(rawBody, drain) ==
    IF ~ NeedsBuffering(rawBody) THEN Body(rawBody, "same")
    ELSE IF rawBody \in {"stream", "reader"} /\ drain = "fail"
         THEN Body(rawBody, "json")
    ELSE IF rawBody \in {"object", "circular"} THEN Body(rawBody, "String")
    ELSE Body(rawBody, "text")

\* part_001:163-177
CleanHeaders_001(headers, isLocal) ==
    LET own == IF headers.kind = "pairs" THEN ForInOverPairs(headers.map)
               ELSE headers.map
    IN HeaderValue("plain",
                   IF isLocal THEN ("Host" :> "127.0.0.1") @@ own ELSE own)

\* part_001:113-187  the try block up to the call of undiciFetch.
Primary_001(input, init, drain, agents) ==
    IF input.shape = "other"
    THEN PrimaryResult("Error", "", "", FALSE, FALSE, NoRequest, init, {})
    ELSE
      LET url == RewriteLocalhost(input.url)
          isLocal == IsLocal_substring(url)
          selectedDispatcher == SelectDispatcher(isLocal, agents)
          rawBody == RawBody_001(input, init)
          finalBody == FinalBody_001(rawBody, drain)
          used == IF NeedsBuffering(rawBody) /\ rawBody = "stream"
                  THEN {RawBodyOwner_001(input, init)} ELSE {}
          fetchOptions == [url |-> url,
                           method |-> ToUpperCase(Method_001(input, init)),
                           headers |-> CleanHeaders_001(
                                          Headers_001(input, init), isLocal),
                           body |-> IF rawBody = Absent THEN NoBody ELSE finalBody,
                           signal |-> Absent, duplex |-> Absent,
                           dispatcher |-> selectedDispatcher]
      IN PrimaryResult("none", url, "", TRUE, isLocal, fetchOptions, init, used)

\* The catch blocks.  net.ts:166-169 warns and calls baseFetch.  part_000:
\* 202-206 and part_001:189-193 first evaluate
\*   err.cause ? JSON.stringify(err.cause) : "Unknown"
\* which throws when err is null or undefined and when the cause cannot be
\* serialised; baseFetch is then never called.
CatchReachesBaseline(impl, err) ==
    impl = "net" \/ err \notin {"nullish", "ErrorCircularCause"}

-----------------------------------------------------------------------------
(* Part II: inputs                                                          *)

\* URLs whose host decides the routing.
RouteUrls ==
    {"http://localhost:3000/x",
     "http://localhost:3000/localhost",
     "http://127.0.0.1:8080/",
     "http://0.0.0.0:11434/",
     "http://10.1.2.3/",
     "http://172.16.0.1/",
     "http://172.31.255.1/",
     "http://172.32.0.1/",
     "http://192.168.1.1/",
     "http://8.8.8.8/",
     "https://api.example.com/v1",
     "http://10.example.com/",
     "http://host127.0.0.1.example.com/",
     "http://localhost.example.com/",
     "https://api.example.com/localhost",
     "http:\\\\localhost:3000\\x",
     "not a url"}

\* Where the normalisation is what varies, one remote and one local URL.
RemoteUrl == "https://api.example.com/v1"

LocalUrl == "http://localhost:3000/x"

RouteInputs ==
    {StringInput(u) : u \in RouteUrls}
      \cup {UrlInput(u) : u \in {v \in RouteUrls : UrlParses(v)}}
      \cup {RequestInput(u, "GET", NoHeaders, Absent, Absent) :
              u \in {v \in RouteUrls : UrlParses(v)}}
      \cup {OtherInput}

RouteInits == {NoInit, InitOf("post", NoHeaders, "string", Absent)}

\* Method and body, on the input, on init, or on both.
BodyInputs ==
    {StringInput(RemoteUrl)}
      \cup {RequestInput(RemoteUrl, m, NoHeaders, b, Absent) :
              m \in {"GET", "POST"}, b \in {Absent, "string", "stream"}}

BodyInits ==
    {NoInit}
      \cup {InitOf(m, NoHeaders, b, Absent) :
              m \in {Absent, "get", "head", "post"}, b \in BodyKinds}

\* Headers and signal, on the input, on init, or on both.
HeaderInputs ==
    {StringInput(LocalUrl), StringInput(RemoteUrl)}
      \cup {RequestInput(LocalUrl, "POST", h, "string", sg) :
              h \in {NoHeaders, HeadersObject}, sg \in {Absent, "signal"}}

HeaderInits ==
    {NoInit}
      \cup {InitOf(m, h, b, sg) :
              m \in {Absent, "post"},
              h \in {NoHeaders, PlainHeaders, PlainLowerHeaders, HeadersObject,
                     PairsHeaders},
              b \in {Absent, "string", "stream"},
              sg \in {Absent, "signal"}}

\* The (input, init) pairs a caller passes.
Arguments ==
    (RouteInputs \X RouteInits) \cup (BodyInputs \X BodyInits)
      \cup (HeaderInputs \X HeaderInits)

Impls == {"net", "part_000", "part_001"}

-----------------------------------------------------------------------------
(* Part II: one call of fetch                                               *)

NoArguments == [input |-> OtherInput, init |-> NoInit, used |-> {}, passed |-> FALSE]

NoPrimary == PrimaryResult("none", "", "", FALSE, FALSE, NoRequest, NoInit, {})

Idle ==
    [phase |-> "idle", impl |-> "none", input |-> OtherInput, init |-> NoInit,
     primary |-> NoPrimary, raised |-> "none", baseline |-> NoArguments,
     undiciCalls |-> 0, baselineCalls |-> 0, result |-> "none"]

\* The catch block: log, then `return baseFetch(input, init)` with the
\* caller's objects as they are by now.
Catch(c, err) ==
    IF CatchReachesBaseline(c.impl, err)
    THEN [c EXCEPT !.phase = "baseline", !.raised = err,
                   !.baseline = [input |-> c.input, init |-> c.primary.initNow,
                                 used |-> c.primary.used, passed |-> TRUE],
                   !.baselineCalls = @ + 1]
    ELSE [c EXCEPT !.phase = "done", !.raised = err, !.result = "handlerError"]

PrimaryOf(impl, input, init, text, drain) ==
    CASE impl = "net" -> Primary_net(input, init, registry)
      [] impl = "part_000" -> Primary_000(input, init, text, registry)
      [] impl = "part_001" -> Primary_001(input, init, drain, registry)

\* fetch(input, init) runs the try block: it either raises on the way or
\* hands the request to undiciFetch and awaits it.
Fetch(impl, input, init, text, drain) ==
    /\ call.phase = "idle"
    /\ LET r == PrimaryOf(impl, input, init, text, drain)
           c == [Idle EXCEPT !.impl = impl, !.input = input, !.init = init,
                             !.primary = r]
       IN call' = IF r.err = "none"
                  THEN [c EXCEPT !.phase = "undici", !.undiciCalls = 1]
                  ELSE Catch(c, r.err)
    /\ UNCHANGED registry

\* undiciFetch fulfils.
UndiciFulfils ==
    /\ call.phase = "undici"
    /\ call' = [call EXCEPT !.phase = "done", !.result = "undiciResponse"]
    /\ UNCHANGED registry

\* undiciFetch rejects: the catch block runs.
UndiciRejects(err) ==
    /\ call.phase = "undici"
    /\ call' = Catch(call, err)
    /\ UNCHANGED registry

\* The promise of baseFetch settles; fetch returned it, so the caller sees
\* exactly its outcome.
BaselineSettles(outcome) ==
    /\ call.phase = "baseline"
    /\ call' = [call EXCEPT !.phase = "done", !.result = outcome]
    /\ UNCHANGED registry

\* The caller has its answer; the next call may begin.
Return ==
    /\ call.phase = "done"
    /\ call' = Idle
    /\ UNCHANGED registry

PipeInit ==
    /\ call = Idle
    /\ registry = Dispatchers

\* fetch is called with any of the argument pairs, in any revision.
FetchCall ==
    /\ call.phase = "idle"
    /\ \E impl \in Impls, args \in Arguments :
          \E text \in IF impl = "part_000" THEN {"ok"} \cup TextErrors ELSE {"ok"},
             drain \in IF impl = "part_001" THEN {"ok", "fail"} ELSE {"ok"} :
             Fetch(impl, args[1], args[2], text, drain)
    /\ UNCHANGED mockVars

UndiciSettles ==
    /\ \/ UndiciFulfils
       \/ \E err \in UndiciErrors : UndiciRejects(err)
    /\ UNCHANGED mockVars

BaselineAnswers ==
    /\ \E outcome \in {"baselineResponse", "baselineError"} :
          BaselineSettles(outcome)
    /\ UNCHANGED mockVars

Returned == Return /\ UNCHANGED mockVars

Init == MockInit /\ PipeInit

Next ==
    \/ FetchCall
    \/ UndiciSettles
    \/ BaselineAnswers
    \/ Returned

\* The dispatch pipeline.
Spec == Init /\ [][Next]_vars

MockNext ==
    \/ /\ \E a \in Activations, m \in Mocks : MockFetchForTesting(a, m)
       /\ UNCHANGED pipeVars
    \/ /\ \E a \in Activations, kind \in {"value", "throw", "promise"} :
             CallbackExit(a, kind)
       /\ UNCHANGED pipeVars
    \/ /\ \E a \in Activations, outcome \in {"fulfilled", "rejected"} :
             PromiseSettles(a, outcome)
       /\ UNCHANGED pipeVars
    \/ /\ \E a \in Activations : FinallyReaction(a)
       /\ UNCHANGED pipeVars
    \/ /\ FetchEntry
       /\ UNCHANGED pipeVars

\* The mock seam.
SpecMock == Init /\ [][MockNext]_vars

-----------------------------------------------------------------------------
(* Part II: the classification rule of the specification                    *)

IsIPv4Literal(h) ==
    LET ls == Labels(h)
    IN /\ Len(ls) = 4
       /\ \A i \in 1..4 : IsDecimal(ls[i]) /\ Len(ls[i]) <= 3 /\ ToNat(ls[i]) <= 255

\* Local iff localhost, 0.0.0.0, or an IPv4 literal in 127.0.0.0/8,
\* 10.0.0.0/8, 172.16.0.0/12 or 192.168.0.0/16.
RuleLocal(h) ==
    \/ h = "localhost"
    \/ h = "0.0.0.0"
    \/ /\ IsIPv4Literal(h)
       /\ LET o1 == ToNat(Labels(h)[1])
              o2 == ToNat(Labels(h)[2])
          IN \/ o1 = 127
             \/ o1 = 10
             \/ o1 = 172 /\ o2 >= 16 /\ o2 <= 31
             \/ o1 = 192 /\ o2 = 168

Sent == call.primary.request # NoRequest

IsUpperCase(m) == ToUpperCase(m) = m

-----------------------------------------------------------------------------
(* Part II: properties                                                      *)

\* C5: a call whose Primary path raised issues exactly one baseline attempt
\* and ends with that attempt's outcome; a call whose Primary path succeeded
\* issues none; no call issues more than one Primary or baseline attempt.
C5_ExactlyOneFallback ==
    call.impl \in {"net", "part_000"} =>
        /\ call.undiciCalls <= 1 /\ call.baselineCalls <= 1
        /\ call.raised # "none" => call.baselineCalls = 1
        /\ call.raised = "none" => call.baselineCalls = 0
        /\ (call.phase = "done" /\ call.raised # "none") =>
              call.result \in {"baselineResponse", "baselineError"}
        /\ (call.phase = "done" /\ call.raised = "none") =>
              call.result = "undiciResponse"

\* C6: what the baseline client receives is the pair the caller passed, in
\* the state the caller passed it: init unaltered, no body read.
C6_BaselineGetsOriginalArguments ==
    call.baseline.passed =>
        /\ call.baseline.input = call.input
        /\ call.baseline.init = call.init
        /\ call.baseline.used = {}

\* C7: for a well-formed hostname the classification is Local exactly when
\* the rule of the specification says so.
C7_ClassificationFollowsRanges ==
    (/\ call.impl \in {"part_000", "part_001"}
     /\ call.primary.classified
     /\ UrlParses(call.input.url)) =>
        call.primary.isLocal = RuleLocal(UrlHostname(call.input.url))

C9_NoLocalhostSent ==
    (call.impl \in {"net", "part_000"} /\ Sent) =>
        ~ Includes(call.primary.request.url, "localhost")

\* C10: the method handed to undiciFetch is upper-case, and a GET or HEAD
\* request carries no body.
C10_UpperCaseAndNoBodyForGetHead ==
    (call.impl \in {"part_000", "part_001"} /\ Sent) =>
        /\ IsUpperCase(call.primary.request.method)
        /\ call.primary.request.method \in {"GET", "HEAD"} =>
              call.primary.request.body = NoBody

\* What the precedence rule of the specification asks for: the field of the
\* explicit options when they define it, else the field of the request-like
\* input, else the default.
ExpectedMethod ==
    IF call.init.given /\ call.init.method # Absent THEN call.init.method
    ELSE IF HasMethod(call.input) /\ call.input.method # Absent
         THEN call.input.method ELSE "GET"

ExpectedBody ==
    IF call.init.given /\ call.init.body # Absent THEN call.init.body
    ELSE IF HasMethod(call.input) THEN call.input.body ELSE Absent

ExpectedSignal ==
    IF call.init.given /\ call.init.signal # Absent THEN call.init.signal
    ELSE IF HasMethod(call.input) THEN call.input.signal ELSE Absent

\* The method the low-level client acts on: it takes GET when given none.
EffectiveMethod(request) ==
    IF request.method = Absent THEN "GET" ELSE ToUpperCase(request.method)

CarriesBody == ToUpperCase(ExpectedMethod) \notin {"GET", "HEAD"}

\* C11: the request handed to undiciFetch has the method and the body of the
\* explicit options when they define the field, else of the request-like
\* input, else the default; an empty-string body in the options counts as
\* defined (sending no body at all is accepted for it).
C11_OptionsThenInputThenDefault ==
    (call.impl \in {"net", "part_000"} /\ Sent) =>
        /\ EffectiveMethod(call.primary.request) = ToUpperCase(ExpectedMethod)
        /\ CarriesBody =>
              \/ call.primary.request.body.of = ExpectedBody
              \/ ExpectedBody = "empty" /\ call.primary.request.body = NoBody

\* C12: a body that is a string, a Buffer or a byte array reaches undiciFetch
\* as the caller's value itself when the method is neither GET nor HEAD.
C12_TextAndBinaryPassThrough ==
    (/\ call.impl \in {"part_000", "part_001"}
     /\ Sent
     /\ call.primary.request.method \notin {"GET", "HEAD"}
     /\ call.primary.request.body.of \in {"string", "buffer", "bytes"}) =>
        call.primary.request.body.as = "same"

\* C13: for a plain-object body given in the options with a method other
\* than GET and HEAD, the Primary path does not raise and undiciFetch gets
\* JSON.stringify(body), or String(body) when JSON.stringify throws.
C13_ObjectBodySerialised ==
    (/\ call.impl \in {"part_000", "part_001"}
     /\ call.phase # "idle"
     /\ call.init.given /\ call.init.body \in {"object", "circular"}
     /\ CarriesBody) =>
        /\ call.primary.err = "none"
        /\ call.primary.request.body =
              Body(call.init.body,
                   IF call.init.body = "object" THEN "json" ELSE "String")

\* C14: a cancellation signal the caller gave, in the options or on the
\* request-like input, is the signal of the request handed to undiciFetch.
C14_SignalForwarded ==
    (Sent /\ ExpectedSignal # Absent) =>
        call.primary.request.signal = ExpectedSignal

\* The headers the caller gave: those of the options when they define any,
\* else those of the request-like input.
ExpectedHeaders ==
    IF call.init.given /\ call.init.headers # NoHeaders THEN call.init.headers
    ELSE IF HasMethod(call.input) THEN call.input.headers ELSE NoHeaders

\* C15: for headers given as a Headers object or as an array of pairs, the
\* name-to-value mapping undiciFetch receives is the one it receives for the
\* plain mapping with the same names and values.
C15_IterableLikePlainMapping ==
    (/\ call.impl \in {"net", "part_001"}
     /\ Sent
     /\ ExpectedHeaders.kind \in {"Headers", "pairs"}) =>
        call.primary.request.headers.map =
            IF call.impl = "part_001"
            THEN CleanHeaders_001(HeaderValue("plain", ExpectedHeaders.map),
                                  call.primary.isLocal).map
            ELSE CleanHeaders_net([call.init EXCEPT !.headers =
                     HeaderValue("plain", ExpectedHeaders.map)]).headers.map

\* The two headers the specification gives defaults for: the name as the
\* default writes it, the name as a Headers object holds it, the default.
DefaultedHeaders ==
    {<<"Content-Type", "content-type", "application/json">>,
     <<"Connection", "connection", "keep-alive">>}

Defines(map, d) == d[1] \in DOMAIN map \/ d[2] \in DOMAIN map

ValueOf(map, d) == IF d[1] \in DOMAIN map THEN map[d[1]] ELSE map[d[2]]

\* C16: the headers handed to undiciFetch define Content-Type and
\* Connection, each with the caller's value when the caller's headers define
\* the name and with the default otherwise.
C16_DefaultsUnlessCallerDefines ==
    (call.impl \in {"part_000", "part_001"} /\ Sent) =>
        \A d \in DefaultedHeaders :
            /\ Defines(call.primary.request.headers.map, d)
            /\ ValueOf(call.primary.request.headers.map, d) =
                  IF Defines(ExpectedHeaders.map, d)
                  THEN ValueOf(ExpectedHeaders.map, d) ELSE d[3]

\* No hostname can be taken from the URL of the call: the input has none of
\* the recognised shapes, or its URL does not parse, before and after the
\* rewrites.
Unextractable ==
    \/ call.input.shape = "other"
    \/ /\ ~ UrlParses(call.input.url)
       /\ ~ UrlParses(RewriteLocalhost(FixBackslashes(call.input.url)))

\* C17: when no hostname can be extracted the Primary path does not raise
\* on that account: the hostname is 'localhost', the call is classified
\* Local, undiciFetch is called with localAgent, and the catch block is
\* entered only after that call.
C17_UnextractableHostIsLocal ==
    (/\ call.impl \in {"part_000", "part_001"}
     /\ call.phase # "idle"
     /\ Unextractable) =>
        /\ call.primary.err = "none"
        /\ call.primary.isLocal
        /\ call.impl = "part_000" => call.primary.hostname = "localhost"
        /\ Sent /\ call.primary.request.dispatcher = "localAgent"
        /\ call.raised # "none" => call.undiciCalls = 1

\* C18: a call whose URL the rewrites changed, and whose original host is
\* Remote under the rule, is classified Remote, uses proxyAgent, and is sent
\* to the original host.
C18_RewritesKeepRouting ==
    (/\ Sent
     /\ UrlParses(call.input.url)
     /\ ~ RuleLocal(UrlHostname(call.input.url))
     /\ call.primary.url # call.input.url) =>
        /\ ~ call.primary.isLocal
        /\ call.primary.request.dispatcher = "proxyAgent"
        /\ UrlParses(call.primary.request.url)
        /\ UrlHostname(call.primary.request.url) = UrlHostname(call.input.url)

====
